---- MODULE Spec2Model ----
(***************************************************************************)
(* The HR dashboard chart pipeline of JobSync:                             *)
(*   - GET /api/hr/dashboard/charts (src/app/api/hr/dashboard/charts/      *)
(*     route.ts): authentication, role check, parameter check, tenant      *)
(*     scope, fetch, in-process aggregation, JSON envelope;                *)
(*   - the two chart components that fetch the envelope on mount           *)
(*     (JobMatchedChart.tsx and MonthlyApplicantsChart).                   *)
(* Strings whose characters matter (job ids, month keys, job titles) are   *)
(* sequences of one-character strings; a message built from a template     *)
(* literal is the sequence of its pieces.                                  *)
(***************************************************************************)
EXTENDS Integers, Sequences, FiniteSets, TLC

VARIABLES
    profiles,       \* table profiles: the caller's row, <<>> or <<[role]>>
    jobs,           \* table jobs: sequence of [id, created_by, title]
    applications,   \* table applications: sequence of [job_id, created_at]
    pc,             \* position of the GET handler
    chartType,      \* searchParams.get('type'): <<>> (null) or <<value>>
    isAdmin,        \* route.ts:59
    jobIds,         \* route.ts:62
    calls,          \* the external calls issued so far, with their outcome
    responses,      \* the responses the handler returned
    chart,          \* which chart component is mounted
    cpc,            \* position of the component's fetch function
    data,           \* useState<...[]>([])
    loading,        \* useState(true)
    fetches,        \* number of fetch() calls issued by the component
    result          \* the envelope response.json() resolved with: <<>> or <<envelope>>

vars == <<profiles, jobs, applications, pc, chartType, isAdmin, jobIds, calls,
          responses, chart, cpc, data, loading, fetches, result>>

storeVars == <<profiles, jobs, applications>>
chartVars == <<chart, cpc, data, loading, fetches, result>>
handlerVars == <<pc, chartType, isAdmin, jobIds, calls, responses>>

-----------------------------------------------------------------------------
(* Bounds of the model *)

\* rows of the applications table in the request pipeline's store
MaxApps == 3
\* distinct calendar months the large monthly input ranges over
NumMonths == 13
\* distinct job ids the large by-job input ranges over
NumJobIds == 11
\* rows of a success envelope handed to a chart component (free-form part)
MaxChartRows == 2

(* Program constants *)

\* .slice(-12)
LastMonths == 12
\* .slice(0, 10)
TopJobs == 10
\* .slice(0, 8) in JobMatchedChart
ChartTopJobs == 8
\* item.job_title.length > 30
TitleBudget == 30

-----------------------------------------------------------------------------
(* Characters and strings *)

DigitChars == {"0", "1", "2", "3", "4", "5", "6", "7", "8", "9"}

DigitValue(c) ==
    CASE c = "0" -> 0 [] c = "1" -> 1 [] c = "2" -> 2 [] c = "3" -> 3
      [] c = "4" -> 4 [] c = "5" -> 5 [] c = "6" -> 6 [] c = "7" -> 7
      [] c = "8" -> 8 [] c = "9" -> 9

DigitChar(d) ==
    CASE d = 0 -> "0" [] d = 1 -> "1" [] d = 2 -> "2" [] d = 3 -> "3"
      [] d = 4 -> "4" [] d = 5 -> "5" [] d = 6 -> "6" [] d = 7 -> "7"
      [] d = 8 -> "8" [] d = 9 -> "9"

\* collation rank of a character: punctuation sorts before digits, digits
\* before letters
CharRank(c) ==
    IF c = "-" THEN 0
    ELSE IF c \in DigitChars THEN 1 + DigitValue(c)
    ELSE 11

\* String(n) of a non-negative integer
RECURSIVE NumberToString(_)
NumberToString(n) ==
    IF n < 10 THEN <<DigitChar(n)>>
    ELSE Append(NumberToString(n \div 10), DigitChar(n % 10))

\* s.padStart(2, '0')
PadStart2(s) == IF Len(s) >= 2 THEN s ELSE <<"0">> \o s

\* the number a string of digits denotes
RECURSIVE ParseDigits(_)
ParseDigits(s) ==
    IF Len(s) = 0 THEN 0
    ELSE 10 * ParseDigits(SubSeq(s, 1, Len(s) - 1)) + DigitValue(s[Len(s)])

\* a.localeCompare(b) < 0, character by character, a proper prefix first
RECURSIVE LocaleLess(_, _)
LocaleLess(a, b) ==
    IF Len(b) = 0 THEN FALSE
    ELSE IF Len(a) = 0 THEN TRUE
    ELSE IF CharRank(a[1]) # CharRank(b[1]) THEN CharRank(a[1]) < CharRank(b[1])
    ELSE LocaleLess(Tail(a), Tail(b))

\* numeric order of two canonical decimal strings
LessIndex(a, b) ==
    \/ Len(a) < Len(b)
    \/ (Len(a) = Len(b) /\ LocaleLess(a, b))

\* an own property key that is an array index: the canonical decimal string
\* of an integer in 0 .. 2^32 - 2
IsArrayIndex(k) ==
    /\ Len(k) >= 1
    /\ \A i \in 1..Len(k) : k[i] \in DigitChars
    /\ (Len(k) > 1 => k[1] # "0")
    /\ ~LessIndex(<<"4", "2", "9", "4", "9", "6", "7", "2", "9", "4">>, k)

\* Array.prototype.sort, which is stable, over the positions of an array:
\* negative[i][j] tells that the comparator is negative for (s[i], s[j]);
\* each position is inserted after the positions that do not come after it
InsertSorted(order, x, negative) ==
    LET k == Cardinality({j \in DOMAIN order : ~negative[x][order[j]]})
    IN SubSeq(order, 1, k) \o <<x>> \o SubSeq(order, k + 1, Len(order))

RECURSIVE SortedOrder(_, _)
SortedOrder(n, negative) ==
    IF n = 0 THEN <<>>
    ELSE InsertSorted(SortedOrder(n - 1, negative), n, negative)

StableSort(s, negative) ==
    LET order == SortedOrder(Len(s), negative)
    IN [p \in 1..Len(s) |-> s[order[p]]]

\* an object as the sequence of its properties [key, value] in insertion
\* order; Object.entries / Object.values list the array-index keys first, in
\* ascending numeric order, then the other keys in insertion order
LessIndexKey(a, b) == LessIndex(a.key, b.key)
HasIndexKey(p) == IsArrayIndex(p.key)
HasTextKey(p) == ~IsArrayIndex(p.key)
OwnProperties(obj) ==
    LET indexed == SelectSeq(obj, HasIndexKey)
        negative == [i \in DOMAIN indexed |->
                        [j \in DOMAIN indexed |-> LessIndexKey(indexed[i], indexed[j])]]
    IN StableSort(indexed, negative) \o SelectSeq(obj, HasTextKey)

\* the position of key k among the properties of obj, 0 when absent
PropertyIndex(obj, k) ==
    IF \E i \in DOMAIN obj : obj[i].key = k
    THEN CHOOSE i \in DOMAIN obj : obj[i].key = k
    ELSE 0

\* slice(0, n) written where slice(-n) was meant
SliceLastFromFront(s, n) == IF Len(s) <= n THEN s ELSE SubSeq(s, 1, n)

\* arr.slice(-n)
SliceLast(s, n) == IF Len(s) <= n THEN s ELSE SubSeq(s, Len(s) - n + 1, Len(s))

\* arr.slice(0, n)
SliceFirst(s, n) == IF Len(s) <= n THEN s ELSE SubSeq(s, 1, n)

-----------------------------------------------------------------------------
(* The data store: what its queries return *)

\* the authenticated user's id, and another user of the store
Caller == "u1"
OtherUser == "u2"

\* .eq('created_by', user.id).select('id') on jobs
OwnedBy(owner, job) == job.created_by = owner
SelectJobIds(owner) ==
    LET Mine(job) == OwnedBy(owner, job)
        mine == SelectSeq(jobs, Mine)
    IN [i \in 1..Len(mine) |-> mine[i].id]

\* query.in('job_id', ids): a row with a null job_id matches no id
InJobIds(row, ids) ==
    /\ Len(row.job_id) = 1
    /\ \E i \in DOMAIN ids : ids[i] = row.job_id[1]

\* the filter left out
AppliesFilterNever(admin, ids) == FALSE

\* route.ts:109 and route.ts:166: whether the job_id filter is applied
AppliesFilter(admin, ids) == ~admin /\ Len(ids) > 0

\* the application rows a query sees
VisibleApplications(admin, ids) ==
    LET Keep(row) == InJobIds(row, ids)
    IN IF AppliesFilter(admin, ids) THEN SelectSeq(applications, Keep)
       ELSE applications

\* created_at as the Date the handler builds from it: local calendar year
\* and getMonth() (0..11); a later date is greater
LaterDate(a, b) ==
    \/ a.year > b.year
    \/ (a.year = b.year /\ a.month > b.month)

\* .select('created_at').order('created_at', { ascending: false })
LaterRow(a, b) == LaterDate(a.created_at, b.created_at)
SelectCreatedAt(admin, ids) ==
    LET rows == VisibleApplications(admin, ids)
        negative == [i \in DOMAIN rows |->
                        [j \in DOMAIN rows |-> LaterRow(rows[i], rows[j])]]
        sorted == StableSort(rows, negative)
    IN [i \in 1..Len(sorted) |-> [created_at |-> sorted[i].created_at]]

\* the embedded resource jobs:job_id(title): <<>> when no job matches
JoinTitle(job_id) ==
    LET Match(job) == Len(job_id) = 1 /\ job.id = job_id[1]
        hit == SelectSeq(jobs, Match)
    IN IF Len(hit) = 0 THEN <<>> ELSE <<[title |-> hit[1].title]>>

\* .select('job_id, jobs:job_id(title)')
SelectJobIdWithTitle(admin, ids) ==
    LET rows == VisibleApplications(admin, ids)
    IN [i \in 1..Len(rows) |->
            [job_id |-> rows[i].job_id, jobs |-> JoinTitle(rows[i].job_id)]]

-----------------------------------------------------------------------------
(* Aggregation *)

\* `${date.getFullYear()}-${String(date.getMonth() + 1).padStart(2, '0')}`
MonthKey(date) ==
    NumberToString(date.year) \o <<"-">> \o PadStart2(NumberToString(date.month + 1))

\* (a, b) => a.month.localeCompare(b.month)
ByMonth(a, b) == LocaleLess(a.month, b.month)

\* route.ts:134-139: monthCounts[monthKey] = (monthCounts[monthKey] || 0) + 1
RECURSIVE MonthCounts(_)
MonthCounts(rows) ==
    IF Len(rows) = 0 THEN <<>>
    ELSE LET obj == MonthCounts(SubSeq(rows, 1, Len(rows) - 1))
             monthKey == MonthKey(rows[Len(rows)].created_at)
             at == PropertyIndex(obj, monthKey)
         IN IF at = 0 THEN Append(obj, [key |-> monthKey, value |-> 1])
            ELSE [obj EXCEPT ![at].value = @ + 1]

\* Object.entries(monthCounts).map(([month, count]) => ({ month, count }))
MonthEntries(obj) ==
    LET own == OwnProperties(obj)
    IN [i \in 1..Len(own) |-> [month |-> own[i].key, count |-> own[i].value]]

\* route.ts:142-145
MonthlyData(rows) ==
    LET entries == MonthEntries(MonthCounts(rows))
        negative == [i \in DOMAIN entries |->
                        [j \in DOMAIN entries |-> ByMonth(entries[i], entries[j])]]
    IN SliceLast(StableSort(entries, negative), LastMonths)

Unknown == <<"u", "n", "k", "n", "o", "w", "n">>
UnknownJob == <<"U", "n", "k", "n", "o", "w", "n", " ", "J", "o", "b">>

\* app.job_id || 'unknown'
JobIdOf(app) ==
    IF Len(app.job_id) = 1 /\ Len(app.job_id[1]) > 0 THEN app.job_id[1] ELSE Unknown

\* app.jobs?.title || 'Unknown Job'
JobTitleOf(app) ==
    IF Len(app.jobs) = 1 /\ Len(app.jobs[1].title) > 0 THEN app.jobs[1].title
    ELSE UnknownJob

\* the comparator with its operands swapped
ByCountAsc(a, b) == a.count - b.count < 0

\* (a, b) => b.count - a.count
ByCountDesc(a, b) == b.count - a.count < 0

\* route.ts:191-200
RECURSIVE JobCounts(_)
JobCounts(rows) ==
    IF Len(rows) = 0 THEN <<>>
    ELSE LET obj == JobCounts(SubSeq(rows, 1, Len(rows) - 1))
             app == rows[Len(rows)]
             jobId == JobIdOf(app)
             at == PropertyIndex(obj, jobId)
         IN IF at = 0
            THEN Append(obj, [key |-> jobId,
                              value |-> [job_id |-> jobId,
                                         job_title |-> JobTitleOf(app),
                                         count |-> 1]])
            ELSE [obj EXCEPT ![at].value.count = @ + 1]

\* Object.values(jobCounts)
JobValues(obj) ==
    LET own == OwnProperties(obj)
    IN [i \in 1..Len(own) |-> own[i].value]

\* route.ts:203-205
JobData(rows) ==
    LET values == JobValues(JobCounts(rows))
        negative == [i \in DOMAIN values |->
                        [j \in DOMAIN values |-> ByCountDesc(values[i], values[j])]]
    IN SliceFirst(StableSort(values, negative), TopJobs)

-----------------------------------------------------------------------------
(* Responses *)

NoError == [message |-> "", details |-> "", code |-> ""]

\* NextResponse.json({ success: false, error }, { status })
Fail(status, message) ==
    [status |-> status, fields |-> {"success", "error"}, success |-> FALSE,
     error |-> message, code |-> "", data |-> <<>>]

\* NextResponse.json({ success: true, data })
Ok(rows) ==
    [status |-> 200, fields |-> {"success", "data"}, success |-> TRUE,
     error |-> <<>>, code |-> "", data |-> rows]

\* a generic message in place of the store's
ErrorMessageGeneric(e, fallback) == fallback

\* error.message || error.details || fallback
ErrorMessage(e, fallback) ==
    IF e.message # "" THEN e.message
    ELSE IF e.details # "" THEN e.details
    ELSE fallback

\* error.code || 'UNKNOWN_ERROR'
ErrorCode(e) == IF e.code # "" THEN e.code ELSE "UNKNOWN_ERROR"

\* the 500 envelope of a failed jobs or applications query
StoreFail(e, fallback) ==
    [status |-> 500, fields |-> {"success", "error", "code"}, success |-> FALSE,
     error |-> <<ErrorMessage(e, fallback)>>, code |-> ErrorCode(e), data |-> <<>>]

\* the catch block without { status: 500 }
CatchResponseDefaultStatus(message) ==
    [Fail(200, <<IF message # "" THEN message ELSE "Internal server error">>)
        EXCEPT !.status = 200]

\* the catch block: error.message || 'Internal server error'
CatchResponse(message) ==
    Fail(500, <<IF message # "" THEN message ELSE "Internal server error">>)

-----------------------------------------------------------------------------
(* What the environment may hand to one request *)

\* request.nextUrl.searchParams.get('type')
ChartTypes == {<<>>, <<"">>, <<"monthly">>, <<"by-job">>, <<"weekly">>}

\* errors a store call may resolve with
StoreErrors ==
    {[message |-> "connection refused", details |-> "socket closed", code |-> "08006"],
     [message |-> "permission denied", details |-> "", code |-> ""],
     [message |-> "", details |-> "statement timeout", code |-> "57014"],
     [message |-> "", details |-> "", code |-> ""]}

\* message of an Error a call may throw
ThrownMessages == {"", "fetch failed"}

Roles == {"HR", "ADMIN", "APPLICANT"}

-----------------------------------------------------------------------------
(* GET /api/hr/dashboard/charts *)

Call(name, outcome, e) == [call |-> name, outcome |-> outcome, error |-> e]

\* a return statement of the handler
Respond(r) ==
    /\ responses' = Append(responses, r)
    /\ pc' = "done"

\* route.ts:220-226
Catch(message) == Respond(CatchResponse(message))

\* the role check left out
AnyRoleAllowed(role) == TRUE

\* route.ts:42
RoleAllowed(role) == role = "HR" \/ role = "ADMIN"

\* route.ts:52: !chartType
MissingType(t) == Len(t) = 0 \/ t[1] = ""

\* the empty-scope return left out
HasNoJobsNever(ids) == FALSE

\* route.ts:90
HasNoJobs(ids) == Len(ids) = 0

\* route.ts:213-217
InvalidType(t) ==
    Fail(400, <<"Invalid chart type: ", t[1], ". Supported types: monthly, by-job">>)

\* route.ts:99-218: the switch, up to the await of its query
Switch ==
    IF chartType = <<"monthly">> THEN pc' = "monthly" /\ UNCHANGED responses
    ELSE IF chartType = <<"by-job">> THEN pc' = "by-job" /\ UNCHANGED responses
    ELSE Respond(InvalidType(chartType))

ReceiveRequest ==
    /\ pc = "idle"
    /\ \E t \in ChartTypes : chartType' = t
    /\ pc' = "createClient"
    /\ UNCHANGED <<isAdmin, jobIds, calls, responses>>
    /\ UNCHANGED <<storeVars, chartVars>>

\* route.ts:17
CreateClientOk ==
    /\ pc = "createClient"
    /\ calls' = Append(calls, Call("createClient", "ok", NoError))
    /\ pc' = "getUser"
    /\ UNCHANGED <<chartType, isAdmin, jobIds, responses>>
    /\ UNCHANGED <<storeVars, chartVars>>

CreateClientThrows ==
    /\ pc = "createClient"
    /\ calls' = Append(calls, Call("createClient", "throw", NoError))
    /\ \E m \in ThrownMessages : Catch(m)
    /\ UNCHANGED <<chartType, isAdmin, jobIds>>
    /\ UNCHANGED <<storeVars, chartVars>>

\* route.ts:20-26
GetUserOk ==
    /\ pc = "getUser"
    /\ calls' = Append(calls, Call("auth.getUser", "ok", NoError))
    /\ pc' = "profile"
    /\ UNCHANGED <<chartType, isAdmin, jobIds, responses>>
    /\ UNCHANGED <<storeVars, chartVars>>

\* authError set, or no error and a null user
GetUserNoSession ==
    /\ pc = "getUser"
    /\ \E o \in {"error", "no user"} :
            calls' = Append(calls, Call("auth.getUser", o, NoError))
    /\ Respond(Fail(401, <<"Unauthorized">>))
    /\ UNCHANGED <<chartType, isAdmin, jobIds>>
    /\ UNCHANGED <<storeVars, chartVars>>

GetUserThrows ==
    /\ pc = "getUser"
    /\ calls' = Append(calls, Call("auth.getUser", "throw", NoError))
    /\ \E m \in ThrownMessages : Catch(m)
    /\ UNCHANGED <<chartType, isAdmin, jobIds>>
    /\ UNCHANGED <<storeVars, chartVars>>

\* route.ts:29-40: the query failed, or .single() found no row
GetProfileFails ==
    /\ pc = "profile"
    /\ \/ \E e \in StoreErrors :
            calls' = Append(calls, Call("profiles", "error", e))
       \/ /\ Len(profiles) = 0
          /\ calls' = Append(calls, Call("profiles", "no row", NoError))
    /\ Respond(Fail(404, <<"Profile not found">>))
    /\ UNCHANGED <<chartType, isAdmin, jobIds>>
    /\ UNCHANGED <<storeVars, chartVars>>

\* route.ts:42-63 and, for ADMIN, the switch: everything up to the next await
GetProfileOk ==
    /\ pc = "profile"
    /\ Len(profiles) = 1
    /\ calls' = Append(calls, Call("profiles", "ok", NoError))
    /\ LET role == profiles[1].role
       IN IF ~RoleAllowed(role)
          THEN /\ Respond(Fail(403, <<"Forbidden: HR or ADMIN role required">>))
               /\ UNCHANGED isAdmin
          ELSE IF MissingType(chartType)
          THEN /\ Respond(Fail(400, <<"Missing required parameter: type">>))
               /\ UNCHANGED isAdmin
          ELSE /\ isAdmin' = (role = "ADMIN")
               /\ IF role = "ADMIN" THEN Switch
                  ELSE pc' = "jobs" /\ UNCHANGED responses
    /\ UNCHANGED <<chartType, jobIds>>
    /\ UNCHANGED <<storeVars, chartVars>>

GetProfileThrows ==
    /\ pc = "profile"
    /\ calls' = Append(calls, Call("profiles", "throw", NoError))
    /\ \E m \in ThrownMessages : Catch(m)
    /\ UNCHANGED <<chartType, isAdmin, jobIds>>
    /\ UNCHANGED <<storeVars, chartVars>>

\* route.ts:64-85
GetJobsFails ==
    /\ pc = "jobs"
    /\ \E e \in StoreErrors :
        /\ calls' = Append(calls, Call("jobs", "error", e))
        /\ Respond(StoreFail(e, "Failed to fetch jobs"))
    /\ UNCHANGED <<chartType, isAdmin, jobIds>>
    /\ UNCHANGED <<storeVars, chartVars>>

\* route.ts:87-96, then the switch
GetJobsOk ==
    /\ pc = "jobs"
    /\ calls' = Append(calls, Call("jobs", "ok", NoError))
    /\ jobIds' = SelectJobIds(Caller)
    /\ IF HasNoJobs(jobIds') THEN Respond(Ok(<<>>)) ELSE Switch
    /\ UNCHANGED <<chartType, isAdmin>>
    /\ UNCHANGED <<storeVars, chartVars>>

GetJobsThrows ==
    /\ pc = "jobs"
    /\ calls' = Append(calls, Call("jobs", "throw", NoError))
    /\ \E m \in ThrownMessages : Catch(m)
    /\ UNCHANGED <<chartType, isAdmin, jobIds>>
    /\ UNCHANGED <<storeVars, chartVars>>

\* route.ts:103-131
FetchMonthlyFails ==
    /\ pc = "monthly"
    /\ \E e \in StoreErrors :
        /\ calls' = Append(calls, Call("applications", "error", e))
        /\ Respond(StoreFail(e, "Failed to fetch applications"))
    /\ UNCHANGED <<chartType, isAdmin, jobIds>>
    /\ UNCHANGED <<storeVars, chartVars>>

\* route.ts:103-150
FetchMonthlyOk ==
    /\ pc = "monthly"
    /\ calls' = Append(calls, Call("applications", "ok", NoError))
    /\ Respond(Ok(MonthlyData(SelectCreatedAt(isAdmin, jobIds))))
    /\ UNCHANGED <<chartType, isAdmin, jobIds>>
    /\ UNCHANGED <<storeVars, chartVars>>

FetchMonthlyThrows ==
    /\ pc = "monthly"
    /\ calls' = Append(calls, Call("applications", "throw", NoError))
    /\ \E m \in ThrownMessages : Catch(m)
    /\ UNCHANGED <<chartType, isAdmin, jobIds>>
    /\ UNCHANGED <<storeVars, chartVars>>

\* route.ts:156-188
FetchByJobFails ==
    /\ pc = "by-job"
    /\ \E e \in StoreErrors :
        /\ calls' = Append(calls, Call("applications", "error", e))
        /\ Respond(StoreFail(e, "Failed to fetch job data"))
    /\ UNCHANGED <<chartType, isAdmin, jobIds>>
    /\ UNCHANGED <<storeVars, chartVars>>

\* route.ts:156-210
FetchByJobOk ==
    /\ pc = "by-job"
    /\ calls' = Append(calls, Call("applications", "ok", NoError))
    /\ Respond(Ok(JobData(SelectJobIdWithTitle(isAdmin, jobIds))))
    /\ UNCHANGED <<chartType, isAdmin, jobIds>>
    /\ UNCHANGED <<storeVars, chartVars>>

FetchByJobThrows ==
    /\ pc = "by-job"
    /\ calls' = Append(calls, Call("applications", "throw", NoError))
    /\ \E m \in ThrownMessages : Catch(m)
    /\ UNCHANGED <<chartType, isAdmin, jobIds>>
    /\ UNCHANGED <<storeVars, chartVars>>

-----------------------------------------------------------------------------
(* The stores a request may run against *)

Date(y, m) == [year |-> y, month |-> m]

\* job ids of the small store: two array-index-like ids, inserted out of
\* numeric order, as text keys
SmallJobs(owners) ==
    << [id |-> <<"1", "2">>, created_by |-> owners[1],
        title |-> <<"C", "l", "e", "r", "k">>],
       [id |-> <<"7">>, created_by |-> owners[2], title |-> <<>>] >>

SmallApplicationRows ==
    {[job_id |-> j, created_at |-> d] :
        j \in {<<>>, << <<"1", "2">> >>, << <<"7">> >>},
        d \in {Date(2023, 11), Date(2024, 0)}}

BoundedSeqs(S, n) == UNION {[1..k -> S] : k \in 0..n}

ChartIdle ==
    /\ chart = "none" /\ cpc = "none" /\ data = <<>> /\ loading = TRUE
    /\ fetches = 0 /\ result = <<>>

HandlerIdle ==
    /\ pc = "idle" /\ chartType = <<>> /\ isAdmin = FALSE /\ jobIds = <<>>
    /\ calls = <<>> /\ responses = <<>>

Init ==
    /\ profiles \in {<<>>} \cup {<<[role |-> r]>> : r \in Roles}
    /\ \E owners \in [1..2 -> {Caller, OtherUser}] : jobs = SmallJobs(owners)
    /\ applications \in BoundedSeqs(SmallApplicationRows, MaxApps)
    /\ HandlerIdle
    /\ ChartIdle

Next ==
    \/ ReceiveRequest
    \/ CreateClientOk \/ CreateClientThrows
    \/ GetUserOk \/ GetUserNoSession \/ GetUserThrows
    \/ GetProfileOk \/ GetProfileFails \/ GetProfileThrows
    \/ GetJobsOk \/ GetJobsFails \/ GetJobsThrows
    \/ FetchMonthlyOk \/ FetchMonthlyFails \/ FetchMonthlyThrows
    \/ FetchByJobOk \/ FetchByJobFails \/ FetchByJobThrows

Spec == Init /\ [][Next]_vars

-----------------------------------------------------------------------------
(* Large inputs of the monthly aggregation *)

\* the k-th month of the range, which starts in November 2023
RangeDate(k) == Date((2023 * 12 + 10 + k) \div 12, (2023 * 12 + 10 + k) % 12)

\* one application in each month of present, in table order
RECURSIVE MonthRows(_, _)
MonthRows(present, k) ==
    IF k >= NumMonths THEN <<>>
    ELSE (IF k \in present
          THEN <<[job_id |-> << <<"7">> >>, created_at |-> RangeDate(k)]>>
          ELSE <<>>) \o MonthRows(present, k + 1)

\* the state of a request by an ADMIN that awaits its applications query
AwaitsQuery(type) ==
    /\ profiles = <<[role |-> "ADMIN"]>>
    /\ pc = type
    /\ chartType = <<type>>
    /\ isAdmin = TRUE
    /\ jobIds = <<>>
    /\ calls = <<Call("createClient", "ok", NoError),
                 Call("auth.getUser", "ok", NoError),
                 Call("profiles", "ok", NoError)>>
    /\ responses = <<>>

InitMonthly ==
    /\ jobs = SmallJobs([i \in 1..2 |-> Caller])
    /\ \E present \in SUBSET (0..(NumMonths - 1)) :
        \E heavy \in present \cup {-1} :
            applications = MonthRows(present, 0) \o
                (IF heavy = -1 THEN <<>>
                 ELSE <<[job_id |-> <<>>, created_at |-> RangeDate(heavy)]>>)
    /\ AwaitsQuery("monthly")
    /\ ChartIdle

NextMonthly == FetchMonthlyOk

SpecMonthly == InitMonthly /\ [][NextMonthly]_vars

-----------------------------------------------------------------------------
(* Large inputs of the by-job aggregation *)

\* the k-th job id of the range: array-index-like ids that descend as k
\* grows, ids with a letter, and digit strings with a leading zero
RangeJobId(k) ==
    IF k % 4 = 0 THEN <<"0">> \o NumberToString(k)
    ELSE IF k % 2 = 0 THEN <<"j">> \o NumberToString(k)
    ELSE NumberToString(50 - k)

\* the job_id column of the k-th group: null for the first
RangeJobRef(k) == IF k = 1 THEN <<>> ELSE <<RangeJobId(k)>>

RangeJobs ==
    [i \in 1..NumJobIds |->
        [id |-> RangeJobId(i + 1), created_by |-> Caller,
         title |-> IF i % 3 = 0 THEN <<>> ELSE <<"T">> \o NumberToString(i)]]

\* one application for each group of present, ascending or descending
RECURSIVE JobRows(_, _, _)
JobRows(present, k, ascending) ==
    IF k > NumJobIds THEN <<>>
    ELSE LET row == IF k \in present
                    THEN <<[job_id |-> RangeJobRef(k), created_at |-> Date(2024, 0)]>>
                    ELSE <<>>
         IN IF ascending THEN row \o JobRows(present, k + 1, ascending)
            ELSE JobRows(present, k + 1, ascending) \o row

InitByJob ==
    /\ jobs = RangeJobs
    /\ \E present \in SUBSET (1..NumJobIds) :
        \E heavy \in present \cup {0}, ascending \in BOOLEAN :
            applications = JobRows(present, 1, ascending) \o
                (IF heavy = 0 THEN <<>>
                 ELSE <<[job_id |-> RangeJobRef(heavy), created_at |-> Date(2024, 1)]>>)
    /\ AwaitsQuery("by-job")
    /\ ChartIdle

NextByJob == FetchByJobOk

SpecByJob == InitByJob /\ [][NextByJob]_vars

-----------------------------------------------------------------------------
(* The chart components: JobMatchedChart and MonthlyApplicantsChart *)

\* item.job_title.length > 30 ? item.job_title.substring(0, 30) + '...' : item.job_title
ShortTitle(title) ==
    IF Len(title) > TitleBudget
    THEN SubSeq(title, 1, TitleBudget) \o <<".", ".", ".">>
    ELSE title

\* JobMatchedChart.tsx:43-48
ToJobData(rows) ==
    LET top == SliceFirst(rows, ChartTopJobs)
    IN [i \in 1..Len(top) |->
            [jobTitle |-> ShortTitle(top[i].job_title), applications |-> top[i].count]]

\* item.month.split('-'): the pieces between the dashes
RECURSIVE SplitDash(_)
SplitDash(s) ==
    IF \A i \in DOMAIN s : s[i] # "-" THEN <<s>>
    ELSE LET at == CHOOSE i \in DOMAIN s :
                        s[i] = "-" /\ \A j \in 1..(i - 1) : s[j] # "-"
         IN <<SubSeq(s, 1, at - 1)>> \o SplitDash(SubSeq(s, at + 1, Len(s)))

MonthNames ==
    <<"Jan", "Feb", "Mar", "Apr", "May", "Jun",
      "Jul", "Aug", "Sep", "Oct", "Nov", "Dec">>

\* `${monthNames[parseInt(month) - 1]} ${year}`
MonthLabel(key) ==
    LET parts == SplitDash(key)
    IN <<MonthNames[ParseDigits(parts[2])], " ", parts[1]>>

\* the MonthlyApplicantsChart component, lines 32-39
ToMonthlyData(rows) ==
    [i \in 1..Len(rows) |->
        [month |-> MonthLabel(rows[i].month), applications |-> rows[i].count]]

\* envelopes of the by-job endpoint: the aggregate of up to TopJobs + 1
\* one-application jobs, and short sequences of rows with titles around the
\* title budget
TitleOfLength(n) == [i \in 1..n |-> "x"]
ChartJobRows ==
    {[job_id |-> <<"7">>, job_title |-> t, count |-> c] :
        t \in {UnknownJob, TitleOfLength(TitleBudget), TitleOfLength(TitleBudget + 1)},
        c \in 1..2}
ManyJobRows(n) ==
    [i \in 1..n |-> [job_id |-> <<RangeJobId(i + 1)>>,
                     jobs |-> <<[title |-> <<"T">> \o NumberToString(i)]>>]]
ByJobEnvelopes ==
    {Ok(JobData(ManyJobRows(n))) : n \in 0..(TopJobs + 1)}
        \cup {Ok(rows) : rows \in BoundedSeqs(ChartJobRows, MaxChartRows)}

\* envelopes of the monthly endpoint
ChartMonthRows ==
    {[month |-> MonthKey(d), count |-> c] :
        d \in {Date(2023, 11), Date(2024, 0), Date(2024, 9)}, c \in 1..2}
ManyMonthRows(n) == [i \in 1..n |-> [created_at |-> RangeDate(n - i)]]
MonthlyEnvelopes ==
    {Ok(MonthlyData(ManyMonthRows(n))) : n \in 0..(LastMonths + 1)}
        \cup {Ok(rows) : rows \in BoundedSeqs(ChartMonthRows, MaxChartRows)}

\* the failure envelopes of the endpoint
FailureEnvelopes ==
    {Fail(401, <<"Unauthorized">>), Fail(404, <<"Profile not found">>),
     Fail(403, <<"Forbidden: HR or ADMIN role required">>),
     CatchResponse("")}
        \cup {StoreFail(e, "Failed to fetch jobs") : e \in StoreErrors}

Envelopes(c) ==
    FailureEnvelopes \cup (IF c = "by-job" THEN ByJobEnvelopes ELSE MonthlyEnvelopes)

\* setLoading(false) reached on the success path only
SettleWithErrorKeepsLoading ==
    /\ loading' = loading
    /\ cpc' = "settled"
    /\ UNCHANGED data

\* the finally block, after the catch block logged the error
SettleWithError ==
    /\ loading' = FALSE
    /\ cpc' = "settled"
    /\ UNCHANGED data

\* useEffect(() => { fetch...Data(); }, []): the fetch is issued
MountEffect ==
    /\ cpc = "mounted"
    /\ fetches' = fetches + 1
    /\ cpc' = "fetch"
    /\ UNCHANGED <<chart, data, loading, result>>
    /\ UNCHANGED <<storeVars, handlerVars>>

\* await fetch(...) resolved with a response
FetchResolves ==
    /\ cpc = "fetch"
    /\ cpc' = "json"
    /\ UNCHANGED <<chart, data, loading, fetches, result>>
    /\ UNCHANGED <<storeVars, handlerVars>>

\* await fetch(...) rejected: a network error
FetchRejects ==
    /\ cpc = "fetch"
    /\ SettleWithError
    /\ UNCHANGED <<chart, fetches, result>>
    /\ UNCHANGED <<storeVars, handlerVars>>

\* await response.json() rejected: the body is no JSON
JsonRejects ==
    /\ cpc = "json"
    /\ SettleWithError
    /\ UNCHANGED <<chart, fetches, result>>
    /\ UNCHANGED <<storeVars, handlerVars>>

\* await response.json() resolved with a success:false envelope
JsonResolvesFailure ==
    /\ cpc = "json"
    /\ \E r \in Envelopes(chart) :
        /\ ~r.success
        /\ result' = <<r>>
    /\ SettleWithError
    /\ UNCHANGED <<chart, fetches>>
    /\ UNCHANGED <<storeVars, handlerVars>>

\* await response.json() resolved with a success:true envelope
JsonResolvesSuccess ==
    /\ cpc = "json"
    /\ \E r \in Envelopes(chart) :
        /\ r.success
        /\ result' = <<r>>
        /\ data' = IF chart = "by-job" THEN ToJobData(r.data) ELSE ToMonthlyData(r.data)
    /\ loading' = FALSE
    /\ cpc' = "settled"
    /\ UNCHANGED <<chart, fetches>>
    /\ UNCHANGED <<storeVars, handlerVars>>

InitChart ==
    /\ profiles = <<[role |-> "HR"]>>
    /\ jobs = SmallJobs([i \in 1..2 |-> Caller])
    /\ applications = <<>>
    /\ HandlerIdle
    /\ chart \in {"by-job", "monthly"}
    /\ cpc = "mounted"
    /\ data = <<>>
    /\ loading = TRUE
    /\ fetches = 0
    /\ result = <<>>

NextChart ==
    \/ MountEffect
    \/ FetchResolves \/ FetchRejects
    \/ JsonRejects \/ JsonResolvesFailure \/ JsonResolvesSuccess

SpecChart == InitChart /\ [][NextChart]_vars

-----------------------------------------------------------------------------
(* Properties *)

Done == pc = "done"
Resp == responses[1]
Issued(name) == \E i \in DOMAIN calls : calls[i].call = name
OutcomeOf(name) ==
    IF Issued(name)
    THEN calls[CHOOSE i \in DOMAIN calls : calls[i].call = name].outcome
    ELSE "none"
ErrorOf(name) == calls[CHOOSE i \in DOMAIN calls : calls[i].call = name].error
CallerRole == IF Len(profiles) = 1 THEN profiles[1].role ELSE "none"
NoCallFailed == \A i \in DOMAIN calls : calls[i].outcome = "ok"
Recognized == {<<"monthly">>, <<"by-job">>}

\* the jobs of the store created by the caller
OwnJobIds == {jobs[i].id : i \in {j \in DOMAIN jobs : jobs[j].created_by = Caller}}

\* the applications the caller's role may aggregate over
InScope(app) ==
    \/ CallerRole = "ADMIN"
    \/ (Len(app.job_id) = 1 /\ app.job_id[1] \in OwnJobIds)
ScopedApps == {i \in DOMAIN applications : InScope(applications[i])}
AppsOfMonth(key) ==
    {i \in ScopedApps : MonthKey(applications[i].created_at) = key}
AppsOfJob(id) == {i \in ScopedApps : JobIdOf(applications[i]) = id}
Succeeded(type) ==
    /\ Done
    /\ chartType = <<type>>
    /\ OutcomeOf("applications") = "ok"
    /\ Resp.status = 200

\* C1: an authenticated HR or ADMIN caller whose `type` is absent, empty or
\* unrecognized is answered 400 with success:false, the message naming the
\* value, whatever the role and however many jobs the caller owns.  (Stated
\* for requests in which no external call failed.)
C1_InvalidTypeIs400 ==
    (/\ Done
     /\ OutcomeOf("profiles") = "ok"
     /\ CallerRole \in {"HR", "ADMIN"}
     /\ chartType \notin Recognized
     /\ NoCallFailed)
    => /\ Resp.status = 400
       /\ ~Resp.success
       /\ (~MissingType(chartType)
            => \E i \in DOMAIN Resp.error : Resp.error[i] = chartType[1])

\* C2: for an HR caller every aggregate row counts only applications whose
\* job_id is the id of a job created by the caller, and for an ADMIN caller
\* the rows count the applications of all jobs.
C2_ScopeOfAggregation ==
    /\ Succeeded("monthly") =>
        /\ \A r \in DOMAIN Resp.data :
              Resp.data[r].count = Cardinality(AppsOfMonth(Resp.data[r].month))
        /\ \A i \in ScopedApps : \E r \in DOMAIN Resp.data :
              Resp.data[r].month = MonthKey(applications[i].created_at)
    /\ Succeeded("by-job") =>
        /\ \A r \in DOMAIN Resp.data :
              Resp.data[r].count = Cardinality(AppsOfJob(Resp.data[r].job_id))
        /\ \A i \in ScopedApps : \E r \in DOMAIN Resp.data :
              Resp.data[r].job_id = JobIdOf(applications[i])

\* an HR caller got rows although the store also holds applications of jobs
\* that are not the caller's
C2_Witness ==
    /\ Succeeded("by-job")
    /\ CallerRole = "HR"
    /\ Len(Resp.data) >= 1
    /\ ScopedApps # DOMAIN applications

\* C3: an HR caller whose jobs query succeeds with zero jobs gets
\* 200 {success:true, data:[]} and the applications table is never queried.
C3_EmptyScope ==
    (/\ CallerRole = "HR"
     /\ OutcomeOf("jobs") = "ok"
     /\ OwnJobIds = {})
    => /\ Done
       /\ Resp.status = 200
       /\ Resp.success
       /\ Resp.fields = {"success", "data"}
       /\ Resp.data = <<>>
       /\ ~Issued("applications")

C3_Witness ==
    /\ Done
    /\ CallerRole = "HR"
    /\ OutcomeOf("jobs") = "ok"
    /\ OwnJobIds = {}
    /\ chartType = <<"monthly">>
    /\ Len(applications) >= 1
    /\ Resp.status = 200

\* C4: failures short-circuit in a fixed order whatever `type` is: no valid
\* session gives 401 and no profile, jobs or applications query; else no
\* profile row gives 404; else a role other than HR and ADMIN gives 403; and
\* in the 404 and 403 cases no jobs or applications query is issued.
C4_ShortCircuit ==
    /\ OutcomeOf("auth.getUser") \in {"error", "no user"} =>
        /\ Done /\ Resp.status = 401 /\ ~Resp.success
        /\ ~Issued("profiles") /\ ~Issued("jobs") /\ ~Issued("applications")
    /\ OutcomeOf("profiles") \in {"error", "no row"} =>
        /\ Done /\ Resp.status = 404 /\ ~Resp.success
        /\ ~Issued("jobs") /\ ~Issued("applications")
    /\ (OutcomeOf("profiles") = "ok" /\ CallerRole \notin {"HR", "ADMIN"}) =>
        /\ Done /\ Resp.status = 403 /\ ~Resp.success
        /\ ~Issued("jobs") /\ ~Issued("applications")

\* a caller of another role, sending no `type`, is answered 403
C4_Witness ==
    /\ Done
    /\ OutcomeOf("profiles") = "ok"
    /\ CallerRole = "APPLICANT"
    /\ chartType = <<>>
    /\ Resp.status = 403

FallbackText(name) ==
    IF name = "jobs" THEN "Failed to fetch jobs"
    ELSE IF chartType = <<"monthly">> THEN "Failed to fetch applications"
    ELSE "Failed to fetch job data"

ScopedMonths == {<<i, MonthKey(applications[i].created_at)>> : i \in ScopedApps}
ScopedMonthKeys == {p[2] : p \in ScopedMonths}
Min(a, b) == IF a <= b THEN a ELSE b

\* C6: the monthly result has one row per month key present, each row's
\* count is the number of visible applications of that month, the rows are
\* in strictly ascending chronological order, and of more than 12 months
\* exactly the 12 latest are returned.
C6_MonthlyAggregation ==
    Succeeded("monthly") =>
        LET d == Resp.data
            months == ScopedMonths
            keys == {p[2] : p \in months}
            DateOf(key) ==
                applications[(CHOOSE p \in months : p[2] = key)[1]].created_at
            omitted == {k \in keys : \A r \in DOMAIN d : d[r].month # k}
        IN /\ Len(d) = Min(LastMonths, Cardinality(keys))
           /\ \A r \in DOMAIN d :
                /\ d[r].month \in keys
                /\ d[r].count = Cardinality({p \in months : p[2] = d[r].month})
           /\ \A r \in 1..(Len(d) - 1) :
                LaterDate(DateOf(d[r + 1].month), DateOf(d[r].month))
           /\ \A k \in omitted :
                Len(d) >= 1 /\ LaterDate(DateOf(d[1].month), DateOf(k))

\* more than 12 months are present, one of them with two applications
C6_Witness ==
    /\ Succeeded("monthly")
    /\ Cardinality(ScopedMonthKeys) > LastMonths
    /\ Len(Resp.data) = LastMonths
    /\ \E r \in DOMAIN Resp.data : Resp.data[r].count = 2

\* the groups of the applications in scope
ScopedJobKeys == {JobIdOf(applications[i]) : i \in ScopedApps}

\* C7: each distinct job_id of the visible applications is one group counted
\* by its applications; the result lists min(10, groups) groups in
\* non-increasing order of count, and no omitted group has a count greater
\* than a returned one.
C7_ByJobAggregation ==
    Succeeded("by-job") =>
        LET d == Resp.data
        IN /\ Len(d) = Min(TopJobs, Cardinality(ScopedJobKeys))
           /\ \A r \in DOMAIN d :
                /\ d[r].job_id \in ScopedJobKeys
                /\ d[r].count = Cardinality(AppsOfJob(d[r].job_id))
           /\ \A r, q \in DOMAIN d : r < q =>
                /\ d[r].job_id # d[q].job_id
                /\ d[r].count >= d[q].count
           /\ \A k \in ScopedJobKeys :
                (\A r \in DOMAIN d : d[r].job_id # k)
                    => \A r \in DOMAIN d : Cardinality(AppsOfJob(k)) <= d[r].count

\* more than 10 groups, the first returned one with two applications
C7_Witness ==
    /\ Succeeded("by-job")
    /\ Cardinality(ScopedJobKeys) > TopJobs
    /\ Len(Resp.data) = TopJobs
    /\ Resp.data[1].count = 2
    /\ Resp.data[TopJobs].count = 1

\* the row of the fetched applications in which group k is first met
FirstMet(k) ==
    CHOOSE i \in AppsOfJob(k) : \A j \in AppsOfJob(k) : i <= j

\* C8: among groups of equal count the result follows the order in which
\* their job_id was first met in the fetched rows, and so does the choice of
\* the groups that survive the cut, for every job_id value.
C8_TieBreakFirstEncountered ==
    Succeeded("by-job") =>
        LET d == Resp.data
        IN /\ \A r, q \in DOMAIN d :
                (r < q /\ d[r].count = d[q].count)
                    => FirstMet(d[r].job_id) < FirstMet(d[q].job_id)
           /\ \A k \in ScopedJobKeys :
                (\A r \in DOMAIN d : d[r].job_id # k)
                    => \A r \in DOMAIN d :
                            d[r].count = Cardinality(AppsOfJob(k))
                                => FirstMet(d[r].job_id) < FirstMet(k)

\* C9: a request ends in exactly one structured response: success:true
\* exactly when the status is 200, every other response success:false with
\* an error string, the status one of 200, 400, 401, 403, 404, 500, and a
\* thrown exception becomes a 500 success:false envelope.
C9_StructuredResponse ==
    /\ Len(responses) = (IF Done THEN 1 ELSE 0)
    /\ pc \in {"idle", "createClient", "getUser", "profile", "jobs", "monthly",
              "by-job", "done"}
    /\ Done =>
        /\ Resp.status \in {200, 400, 401, 403, 404, 500}
        /\ Resp.success <=> Resp.status = 200
        /\ "success" \in Resp.fields
        /\ Resp.success => "data" \in Resp.fields
        /\ ~Resp.success =>
            /\ "error" \in Resp.fields
            /\ Len(Resp.error) >= 1
            /\ \A i \in DOMAIN Resp.error : Resp.error[i] # ""
        /\ (\E i \in DOMAIN calls : calls[i].outcome = "throw")
            => Resp.status = 500 /\ ~Resp.success

\* the applications query threw an error without a message
C9_Witness ==
    /\ Done
    /\ OutcomeOf("applications") = "throw"
    /\ Resp.status = 500
    /\ Resp.error = <<"Internal server error">>

\* the state part of C10
ChartStates ==
    /\ fetches = (IF cpc = "mounted" THEN 0 ELSE 1)
    /\ cpc \in {"mounted", "fetch", "json"} => loading /\ data = <<>>
    /\ cpc = "settled" => ~loading
    /\ (cpc = "settled" /\ (result = <<>> \/ ~result[1].success)) => data = <<>>
    /\ data # <<>> =>
        /\ result # <<>>
        /\ result[1].success
        /\ Len(result[1].data) >= 1

\* C10: a chart component starts loading with empty data and issues one
\* fetch on mount; once the fetch settles, with a success:true envelope, a
\* success:false envelope or a thrown error, loading is false and never true
\* again; after a success:false envelope or a thrown error the data is
\* empty, and data is non-empty only after a success:true envelope with at
\* least one row.
C10_ChartLifeCycle ==
    /\ []ChartStates
    /\ [][~loading => ~loading']_vars
    /\ [][cpc = "settled" => cpc' = "settled"]_vars

\* the fetch settled with a success:false envelope
C10_Witness ==
    /\ cpc = "settled"
    /\ result # <<>>
    /\ ~result[1].success
    /\ ~loading
    /\ data = <<>>
    /\ fetches = 1

====
